---- MODULE Spec2Model ----
(***************************************************************************)
(* Verification model of the RAG pipeline and the message orchestration    *)
(* layer of the multi-tenant chatbot backend:                              *)
(*   - TextChunker.chunk            (services/knowledge/chunker.py)        *)
(*   - SessionManager               (services/orchestrator/session_manager)*)
(*   - the mock vector store        (services/vector_store.py)             *)
(*   - rag_query                    (services/rag_engine.py)               *)
(*   - RAGEngine, IntentRouter, ChatOrchestrator, LLMGateway               *)
(*   - process_document_task        (workers/document_tasks.py)            *)
(*   - the vector-store provider dispatch (services/vector_store.py)       *)
(*   - KnowledgeRetriever.get_context (services/knowledge/retriever.py)    *)
(* Each component has its own specification over the shared variables; the *)
(* variables of the other components keep their initial value.             *)
(***************************************************************************)
EXTENDS Integers, Sequences, FiniteSets, TLC

VARIABLES
    \* ---- TextChunker.chunk ----
    text,          \* the input text, a sequence of characters
    cfg,           \* [chunk_size, overlap, min_chunk_size] of the TextChunker
    start,         \* local `start` of chunk()
    index,         \* local `index` of chunk()
    chunks,        \* local `chunks` of chunk(): sequence of TextChunk records
    cpc,           \* position of chunk(): "entry", "loop", "done", "raised", "off"
    iters,         \* number of loop iterations executed (capped by MaxIters)
    prev_start,    \* value of `start` at the beginning of the last iteration
    \* ---- SessionManager / Redis ----
    redis_hist,    \* Redis list at session:history:<conversation_id>, per id
    appended,      \* messages passed to add_message since the key was created
    max_history,   \* the max_history argument used by the add_message calls
    n_appends,     \* number of add_message calls made (capped by MaxAppends)
    sess_result,   \* return value of the last get_history call, or NoResult
    \* ---- mock vector store, rag_query ----
    mock_store,    \* _mock_store: insertion-ordered dict id -> entry, as a sequence
    ns_of,         \* per id: the namespace it was last upserted under, or NoNs
    q_result,      \* the last query_vectors or delete_vectors_by_document call
                   \* since the store last changed otherwise, or NoResult
    db_chunks,     \* KnowledgeChunk rows: set of [id, tenant_id]
    rag_result,    \* return value and effects of the last rag_query call
    \* ---- ChatOrchestrator / RAGEngine / IntentRouter / LLMGateway ----
    calls,         \* per call: position, arguments, locals, outcome, counters
    arrivals,      \* the calls in the order in which they were issued
    kb,            \* what VectorStore.query returns for the tenant's namespace
    redis_up,      \* whether the session store (Redis) is reachable
    \* ---- process_document_task, deployment settings, KnowledgeRetriever ----
    task,          \* the document row and the position of process_document_task
    deployment,    \* the settings and the outcome of each vector-store request
    retr           \* arguments and return value of KnowledgeRetriever.get_context

chunkVars == <<text, cfg, start, index, chunks, cpc, iters, prev_start>>

sessVars == <<redis_hist, appended, max_history, n_appends, sess_result>>

storeVars == <<mock_store, ns_of, q_result, db_chunks, rag_result>>

orchVars == <<calls, arrivals, kb, redis_up>>

otherVars == <<task, deployment, retr>>

vars == <<chunkVars, sessVars, storeVars, orchVars, otherVars>>

----------------------------------------------------------------------------
\* Generic helpers

Max(a, b) == IF a >= b THEN a ELSE b

Min(a, b) == IF a <= b THEN a ELSE b

SetMax(S) == CHOOSE x \in S : \A y \in S : y <= x

SetMin(S) == CHOOSE x \in S : \A y \in S : x <= y

Last(s) == s[Len(s)]

SeqsUpTo(S, n) == UNION { [1..k -> S] : k \in 0..n }

----------------------------------------------------------------------------
\* TextChunker (services/knowledge/chunker.py)

MaxTextLen == 4
MaxChunkSize == 3
MaxOverlap == 2
MaxMinChunk == 3
MaxIters == 12

ParaLookback == 200
SentenceLookback == 100
WordLookback == 50

Alphabet == {"a", " ", ".", "\n"}

Whitespace == {" ", "\n"}

SentenceEnd == {".", "!", "?"}

\* Python index normalisation of a slice bound on a string of length n
PyNorm(i, n) == IF i < 0 THEN Max(i + n, 0) ELSE Min(i, n)

\* Python t[s:e]
PySlice(t, s, e) ==
    LET n == Len(t)
        a == PyNorm(s, n)
        b == PyNorm(e, n)
    IN IF a >= b THEN <<>> ELSE SubSeq(t, a + 1, b)

\* Python t[i] for -len <= i < len (IndexError outside)
PyIndexOk(t, i) == i >= -Len(t) /\ i < Len(t)

PyAt(t, i) == IF i < 0 THEN t[i + Len(t) + 1] ELSE t[i + 1]

\* Python str.strip()
RECURSIVE LStrip(_)
LStrip(s) == IF s # <<>> /\ s[1] \in Whitespace THEN LStrip(Tail(s)) ELSE s

RECURSIVE RStrip(_)
RStrip(s) ==
    IF s # <<>> /\ s[Len(s)] \in Whitespace
    THEN RStrip(SubSeq(s, 1, Len(s) - 1)) ELSE s

Strip(s) == RStrip(LStrip(s))

\* _find_break_point: the three backward scans.  Each returns the adjusted
\* end, 0-tagged records: [kind |-> "ret", end |-> e] or [kind |-> "raise"].
ParaCands(t, s, e) ==
    { i \in (Max(s, e - ParaLookback) + 1)..e :
        i < Len(t) - 1 /\ PySlice(t, i, i + 2) = <<"\n", "\n">> }

SentenceRange(s, e) == (Max(s, e - SentenceLookback) + 1)..e

SentenceCands(t, s, e) ==
    { i \in SentenceRange(s, e) :
        /\ i < Len(t)
        /\ PyIndexOk(t, i)
        /\ PyAt(t, i) \in SentenceEnd
        /\ (i + 1 >= Len(t) \/ PyAt(t, i + 1) \in Whitespace) }

WordRange(s, e) == (Max(s, e - WordLookback) + 1)..e

WordCands(t, s, e) ==
    { i \in WordRange(s, e) :
        i < Len(t) /\ PyIndexOk(t, i) /\ PyAt(t, i) = " " }

\* an index the scan reaches (before any match) on which t[i] raises IndexError
ScanRaises(range, cands, t) ==
    \E i \in range : i < Len(t) /\ ~PyIndexOk(t, i) /\ \A c \in cands : c < i

FindBreakPoint(t, s, e) ==
    IF ParaCands(t, s, e) # {}
    THEN [kind |-> "ret", end |-> SetMax(ParaCands(t, s, e)) + 2]
    ELSE IF ScanRaises(SentenceRange(s, e), SentenceCands(t, s, e), t)
    THEN [kind |-> "raise", end |-> e]
    ELSE IF SentenceCands(t, s, e) # {}
    THEN [kind |-> "ret", end |-> SetMax(SentenceCands(t, s, e)) + 1]
    ELSE IF ScanRaises(WordRange(s, e), WordCands(t, s, e), t)
    THEN [kind |-> "raise", end |-> e]
    ELSE IF WordCands(t, s, e) # {}
    THEN [kind |-> "ret", end |-> SetMax(WordCands(t, s, e)) + 1]
    ELSE [kind |-> "ret", end |-> e]

\* the end of the window that starts at s
WindowEnd(t, s, c) ==
    IF s + c.chunk_size >= Len(t)
    THEN [kind |-> "ret", end |-> Len(t)]
    ELSE FindBreakPoint(t, s, s + c.chunk_size)

\* `if start <= chunks[-1].start_char if chunks else 0` parses as
\* `(start <= chunks[-1].start_char) if chunks else 0`
ForceAdvance(newStart, chs) ==
    IF chs # <<>> THEN newStart <= Last(chs).start_char ELSE FALSE

NextStart(end, c, chs) ==
    IF ForceAdvance(end - c.overlap, chs) THEN end ELSE end - c.overlap

EmitWindow(chunkText, end, t, c) ==
    Len(chunkText) >= c.min_chunk_size \/ end >= Len(t)

\* `index += 1` moved out of the `if` that appends the chunk
NextIndex_EveryWindow(idx, emit) == idx + 1

\* `index += 1` inside the `if` that appends the chunk
NextIndex(idx, emit) == IF emit THEN idx + 1 ELSE idx

TextChunk(chunkText, idx, s, e) ==
    [text |-> chunkText, index |-> idx, start_char |-> s, end_char |-> e]

ChunkConfigs ==
    [chunk_size : 1..MaxChunkSize, overlap : 0..MaxOverlap,
     min_chunk_size : 0..MaxMinChunk]

ChunkIdle ==
    /\ text = <<>>
    /\ cfg = [chunk_size |-> 1, overlap |-> 0, min_chunk_size |-> 0]
    /\ start = 0
    /\ index = 0
    /\ chunks = <<>>
    /\ cpc = "off"
    /\ iters = 0
    /\ prev_start = 0

InitChunkOnly ==
    /\ text \in SeqsUpTo(Alphabet, MaxTextLen)
    /\ cfg \in ChunkConfigs
    /\ start = 0
    /\ index = 0
    /\ chunks = <<>>
    /\ cpc = "entry"
    /\ iters = 0
    /\ prev_start = 0

\* `if not text or not text.strip(): return []`
ChunkEntry ==
    /\ cpc = "entry"
    /\ cpc' = IF text = <<>> \/ Strip(text) = <<>> THEN "done" ELSE "loop"
    /\ UNCHANGED <<text, cfg, start, index, chunks, iters, prev_start>>
    /\ UNCHANGED <<sessVars, storeVars, orchVars, otherVars>>

\* one iteration of `while start < len(text)`
ChunkIter ==
    /\ cpc = "loop"
    /\ start < Len(text)
    /\ iters < MaxIters
    /\ LET we == WindowEnd(text, start, cfg)
           end == we.end
           chunk_text == Strip(PySlice(text, start, end))
           emit == EmitWindow(chunk_text, end, text, cfg)
           chs == IF emit
                  THEN Append(chunks, TextChunk(chunk_text, index, start, end))
                  ELSE chunks
       IN IF we.kind = "raise"
          THEN /\ cpc' = "raised"
               /\ UNCHANGED <<start, index, chunks, prev_start>>
          ELSE /\ chunks' = chs
               /\ index' = NextIndex(index, emit)
               /\ start' = NextStart(end, cfg, chs)
               /\ prev_start' = start
               /\ cpc' = "loop"
    /\ iters' = iters + 1
    /\ UNCHANGED <<text, cfg>>
    /\ UNCHANGED <<sessVars, storeVars, orchVars, otherVars>>

\* the loop condition fails: `return chunks`
ChunkExit ==
    /\ cpc = "loop"
    /\ start >= Len(text)
    /\ cpc' = "done"
    /\ UNCHANGED <<text, cfg, start, index, chunks, iters, prev_start>>
    /\ UNCHANGED <<sessVars, storeVars, orchVars, otherVars>>

ChunkNext == ChunkEntry \/ ChunkIter \/ ChunkExit

----------------------------------------------------------------------------
\* TextChunker.chunk_with_separators / _recursive_chunk

DefaultSeparators == << <<"\n", "\n">>, <<"\n">>, <<".", " ">>, <<" ">> >>

SeparatorLists == {DefaultSeparators, <<>>}

\* Python t.split(sep) for a non-empty sep, scanning from position i with
\* the part cur collected so far
RECURSIVE Split(_, _, _, _)
Split(t, sep, i, cur) ==
    IF i > Len(t) THEN <<cur>>
    ELSE IF i + Len(sep) - 1 <= Len(t) /\ SubSeq(t, i, i + Len(sep) - 1) = sep
    THEN <<cur>> \o Split(t, sep, i + Len(sep), <<>>)
    ELSE Split(t, sep, i + 1, Append(cur, t[i]))

\* the `for part in parts` loop of _recursive_chunk from part k on, and the
\* final append
RECURSIVE PartsLoop(_, _, _, _, _, _, _)
PartsLoop(parts, k, sep, out, current_chunk, current_index, c) ==
    IF k > Len(parts)
    THEN IF current_chunk # <<>>
         THEN Append(out, TextChunk(Strip(current_chunk), current_index, 0,
                                    Len(current_chunk)))
         ELSE out
    ELSE IF Len(current_chunk) + Len(parts[k]) + Len(sep) <= c.chunk_size
    THEN PartsLoop(parts, k + 1, sep, out,
                   current_chunk
                     \o (IF current_chunk # <<>> THEN sep ELSE <<>>)
                     \o parts[k],
                   current_index, c)
    ELSE IF current_chunk # <<>>
    THEN PartsLoop(parts, k + 1, sep,
                   Append(out, TextChunk(Strip(current_chunk), current_index,
                                         0, Len(current_chunk))),
                   parts[k], current_index + 1, c)
    ELSE PartsLoop(parts, k + 1, sep, out, parts[k], current_index, c)

\* _recursive_chunk(text, separators, index) where it returns without
\* calling self.chunk: [kind |-> "ret", chunks |-> ...], and
\* [kind |-> "chunk"] where it returns self.chunk(text)
RecursiveChunk(t, separators, idx, c) ==
    IF Strip(t) = <<>> THEN [kind |-> "ret", chunks |-> <<>>]
    ELSE IF Len(t) <= c.chunk_size
    THEN [kind |-> "ret", chunks |-> <<TextChunk(Strip(t), idx, 0, Len(t))>>]
    ELSE IF separators = <<>> THEN [kind |-> "chunk", chunks |-> <<>>]
    ELSE [kind |-> "ret",
          chunks |-> PartsLoop(Split(t, separators[1], 1, <<>>), 1,
                               separators[1], <<>>, <<>>, idx, c)]

\* chunk_with_separators(text, separators); the fallback continues in the
\* loop of chunk (its blank-text test has already been passed)
ChunkWithSeparators(separators) ==
    LET r == RecursiveChunk(text, separators, 0, cfg)
    IN /\ cpc = "entry"
       /\ cpc' = IF r.kind = "chunk" THEN "loop" ELSE "separators_done"
       /\ chunks' = r.chunks
       /\ UNCHANGED <<text, cfg, start, index, iters, prev_start>>
       /\ UNCHANGED <<sessVars, storeVars, orchVars, otherVars>>

SeparatorsNext ==
    \/ \E separators \in SeparatorLists : ChunkWithSeparators(separators)
    \/ ChunkIter
    \/ ChunkExit

----------------------------------------------------------------------------
\* chunk_text (utils/text_chunker.py)

\* the first position >= i of t that holds no character of S (Len(t) + 1 if none)
RECURSIVE SkipWhile(_, _, _)
SkipWhile(t, i, S) ==
    IF i <= Len(t) /\ t[i] \in S THEN SkipWhile(t, i + 1, S) ELSE i

\* re.split(r'(?<=[.!?])\s+|\n{2,}', t): the pieces between the matches,
\* scanning from position i with the piece cur collected so far
RECURSIVE ReSplit(_, _, _)
ReSplit(t, i, cur) ==
    IF i > Len(t) THEN <<cur>>
    ELSE IF i > 1 /\ t[i - 1] \in SentenceEnd /\ t[i] \in Whitespace
    THEN <<cur>> \o ReSplit(t, SkipWhile(t, i, Whitespace), <<>>)
    ELSE IF i < Len(t) /\ t[i] = "\n" /\ t[i + 1] = "\n"
    THEN <<cur>> \o ReSplit(t, SkipWhile(t, i, {"\n"}), <<>>)
    ELSE ReSplit(t, i + 1, Append(cur, t[i]))

\* [s.strip() for s in sentences if s.strip()]
RECURSIVE StripAll(_)
StripAll(pieces) ==
    IF pieces = <<>> THEN <<>>
    ELSE IF Strip(Head(pieces)) = <<>> THEN StripAll(Tail(pieces))
    ELSE <<Strip(Head(pieces))>> \o StripAll(Tail(pieces))

\* len(s.split()): the number of maximal runs of non-whitespace
WordCount(s) ==
    Cardinality({ k \in 1..Len(s) :
        s[k] \notin Whitespace /\ (k = 1 \/ s[k - 1] \in Whitespace) })

\* " ".join(sentences)
RECURSIVE JoinSentences(_)
JoinSentences(ss) ==
    IF ss = <<>> THEN <<>>
    ELSE IF Len(ss) = 1 THEN ss[1]
    ELSE ss[1] \o <<" ">> \o JoinSentences(Tail(ss))

\* the trailing sentences kept as overlap: walk reversed(current_sentences)
\* from position k down, stop at the first that would exceed chunk_overlap
RECURSIVE OverlapSentences(_, _, _, _)
OverlapSentences(cur, k, acc, chunk_overlap) ==
    IF k = 0 THEN acc
    ELSE IF acc.count + WordCount(cur[k]) > chunk_overlap THEN acc
    ELSE OverlapSentences(cur, k - 1,
            [sentences |-> <<cur[k]>> \o acc.sentences,
             count |-> acc.count + WordCount(cur[k])], chunk_overlap)

\* the `for sentence in sentences` loop from sentence k on
RECURSIVE ChunkTextLoop(_, _, _, _, _, _)
ChunkTextLoop(ss, k, out, cur, cur_count, c) ==
    IF k > Len(ss)
    THEN IF cur # <<>> THEN Append(out, JoinSentences(cur)) ELSE out
    ELSE LET wc == WordCount(ss[k])
         IN IF wc > c.chunk_size /\ cur = <<>>
            THEN ChunkTextLoop(ss, k + 1, Append(out, ss[k]), cur, cur_count, c)
            ELSE IF cur_count + wc > c.chunk_size /\ cur # <<>>
            THEN LET ov == OverlapSentences(cur, Len(cur),
                               [sentences |-> <<>>, count |-> 0], c.overlap)
                 IN ChunkTextLoop(ss, k + 1, Append(out, JoinSentences(cur)),
                                  Append(ov.sentences, ss[k]), ov.count + wc, c)
            ELSE ChunkTextLoop(ss, k + 1, out, Append(cur, ss[k]),
                               cur_count + wc, c)

\* the list comprehension over enumerate(chunks)
Enumerate_FromOne(contents) ==
    [i \in 1..Len(contents) |->
        [content |-> contents[i], token_count |-> WordCount(contents[i]),
         index |-> i]]

Enumerate(contents) ==
    [i \in 1..Len(contents) |->
        [content |-> contents[i], token_count |-> WordCount(contents[i]),
         index |-> i - 1]]

\* chunk_text(text, chunk_size, chunk_overlap)
ChunkTextResult(t, c) ==
    IF t = <<>> \/ Strip(t) = <<>> THEN <<>>
    ELSE Enumerate(ChunkTextLoop(StripAll(ReSplit(Strip(t), 1, <<>>)), 1,
                                 <<>>, <<>>, 0, c))

\* a caller runs chunk_text on the text instead of TextChunker.chunk
ChunkTextCall ==
    /\ cpc = "entry"
    /\ cpc' = "chunk_text_done"
    /\ chunks' = ChunkTextResult(text, cfg)
    /\ UNCHANGED <<text, cfg, start, index, iters, prev_start>>
    /\ UNCHANGED <<sessVars, storeVars, orchVars, otherVars>>


----------------------------------------------------------------------------
\* SessionManager (services/orchestrator/session_manager.py) over Redis lists

MaxAppends == 5
MaxHistoryArg == 3
DefaultMaxHistory == 20
DefaultHistoryLimit == 10

ConvIds == {"c1", "c2"}

Roles == {"user", "assistant"}

NoResult == [kind |-> "none"]

\* json.dumps({"role": role, "content": content}) and json.loads
JsonDumps(m) == <<"{role:", m.role, ",content:", m.content, "}">>

JsonLoads(j) == [role |-> j[2], content |-> j[4]]

DecodeAll(list) == [k \in 1..Len(list) |-> JsonLoads(list[k])]

\* Redis index normalisation: negative indices count from the tail
RedisIdx(i, n) == IF i < 0 THEN n + i ELSE i

\* Redis LRANGE key first last (inclusive, 0-based, out-of-range clamped)
LRange(list, first, last) ==
    LET n == Len(list)
        a == Max(RedisIdx(first, n), 0)
        b == Min(RedisIdx(last, n), n - 1)
    IN IF a > b \/ a >= n THEN <<>> ELSE SubSeq(list, a + 1, b + 1)

\* Redis LTRIM key first last keeps exactly the LRANGE of the list
LTrim(list, first, last) == LRange(list, first, last)

\* Redis RPUSH
RPush(list, x) == Append(list, x)

\* the list stored by add_message: rpush, then ltrim(key, -max_history, -1)
AddMessageList_KeepOldest(list, role, content, m) ==
    LTrim(RPush(list, JsonDumps([role |-> role, content |-> content])), 0, m - 1)

AddMessageList(list, role, content, m) ==
    LTrim(RPush(list, JsonDumps([role |-> role, content |-> content])), -m, -1)

\* get_history: lrange(key, -limit, -1), every element json.loads-ed
GetHistoryList(list, limit) == DecodeAll(LRange(list, -limit, -1))

SessIdle ==
    /\ redis_hist = [c \in ConvIds |-> <<>>]
    /\ appended = [c \in ConvIds |-> <<>>]
    /\ max_history = DefaultMaxHistory
    /\ n_appends = 0
    /\ sess_result = NoResult

InitSessOnly ==
    /\ redis_hist = [c \in ConvIds |-> <<>>]
    /\ appended = [c \in ConvIds |-> <<>>]
    /\ max_history \in 1..MaxHistoryArg
    /\ n_appends = 0
    /\ sess_result = NoResult

\* SessionManager.add_message(conversation_id, role, content, max_history)
AddMessage(c, role, content) ==
    /\ n_appends < MaxAppends
    /\ redis_hist' =
         [redis_hist EXCEPT ![c] = AddMessageList(@, role, content, max_history)]
    /\ appended' =
         [appended EXCEPT ![c] = Append(@, [role |-> role, content |-> content])]
    /\ n_appends' = n_appends + 1
    /\ sess_result' = NoResult
    /\ UNCHANGED max_history
    /\ UNCHANGED <<chunkVars, storeVars, orchVars, otherVars>>

\* SessionManager.get_history(conversation_id, limit)
GetHistory(c, limit) ==
    /\ sess_result' = [kind |-> "history", conv |-> c, limit |-> limit,
                       messages |-> GetHistoryList(redis_hist[c], limit)]
    /\ UNCHANGED <<redis_hist, appended, max_history, n_appends>>
    /\ UNCHANGED <<chunkVars, storeVars, orchVars, otherVars>>

\* the history key disappears: its TTL (session_ttl, refreshed by expire() on
\* every append) ran out, or clear_session deleted it
DropHistoryKey(c) ==
    /\ redis_hist[c] # <<>>
    /\ redis_hist' = [redis_hist EXCEPT ![c] = <<>>]
    /\ appended' = [appended EXCEPT ![c] = <<>>]
    /\ sess_result' = NoResult
    /\ UNCHANGED <<max_history, n_appends>>
    /\ UNCHANGED <<chunkVars, storeVars, orchVars, otherVars>>

SessNext ==
    \/ \E c \in ConvIds, role \in Roles : AddMessage(c, role, n_appends + 1)
    \/ \E c \in ConvIds, limit \in 0..MaxHistoryArg : GetHistory(c, limit)
    \/ \E c \in ConvIds : DropHistoryKey(c)


----------------------------------------------------------------------------
\* Mock vector store (services/vector_store.py)

DefaultTopK == 5

\* lengths of the `vectors` lists passed to upsert_vectors
BatchLens == {1, 2}

VecIds == {"v1", "v2"}

Tenants == {"tA", "tB"}

Docs == {"d1", "d2"}

NoNs == "none"

\* stored and query vectors (2-dimensional, integer components)
StoredVectors == {<<1, 0>>, <<0, 1>>}

QueryVectorSet == {<<1, 0>>, <<1, 1>>, <<0, 0>>}

Dot(a, b) == a[1] * b[1] + a[2] * b[2]

\* _cosine_similarity(a, b) = dot / (|a| * |b|), 0.0 if a magnitude is 0;
\* kept exact as the triple (dot, |a|^2, |b|^2)
CosineSimilarity(a, b) == [dot |-> Dot(a, b), na |-> Dot(a, a), nb |-> Dot(b, b)]

ScoreIsZero(sc) == sc.na = 0 \/ sc.nb = 0 \/ sc.dot = 0

Sign(sc) == IF ScoreIsZero(sc) THEN 0 ELSE IF sc.dot > 0 THEN 1 ELSE -1

\* sc1 > sc2 as real numbers
ScoreGT(sc1, sc2) ==
    LET s1 == Sign(sc1)
        s2 == Sign(sc2)
        l == sc1.dot * sc1.dot * sc2.na * sc2.nb
        r == sc2.dot * sc2.dot * sc1.na * sc1.nb
    IN IF s1 # s2 THEN s1 > s2
       ELSE IF s1 = 0 THEN FALSE
       ELSE IF s1 = 1 THEN l > r
       ELSE l < r

\* sc > num/den for a non-negative threshold num/den
ScoreAbove(sc, num, den) ==
    /\ Sign(sc) = 1
    /\ sc.dot * sc.dot * den * den > num * num * sc.na * sc.nb

Entry(id, values, metadata) == [id |-> id, values |-> values, metadata |-> metadata]

\* {**v["metadata"], "tenant_id": str(tenant_id)}
StampTenant_CallerWins(metadata, tenant_id) == metadata

StampTenant(metadata, tenant_id) == [metadata EXCEPT !.tenant_id = tenant_id]

StoreIds(store) == { store[k].id : k \in 1..Len(store) }

PosOf(store, id) == CHOOSE k \in 1..Len(store) : store[k].id = id

\* _mock_store[id] = entry: an existing key keeps its position, a new key is
\* appended (dict insertion order)
DictSet(store, e) ==
    IF e.id \in StoreIds(store)
    THEN [store EXCEPT ![PosOf(store, e.id)] = e]
    ELSE Append(store, e)

RECURSIVE FilterSeq(_, _)
FilterSeq(store, keep) ==
    IF store = <<>> THEN <<>>
    ELSE IF store[1].id \in keep
         THEN <<store[1]>> \o FilterSeq(Tail(store), keep)
         ELSE FilterSeq(Tail(store), keep)

\* upsert_vectors, mock branch: the loop over `vectors`
RECURSIVE UpsertAll(_, _, _)
UpsertAll(store, vectors, tenant_id) ==
    IF vectors = <<>> THEN store
    ELSE UpsertAll(
           DictSet(store, Entry(vectors[1].id, vectors[1].values,
                                StampTenant(vectors[1].metadata, tenant_id))),
           Tail(vectors), tenant_id)

\* delete_vectors, mock branch: _mock_store.pop(vid, None) for every id
DeleteIds(store, ids, tenant_id) == FilterSeq(store, StoreIds(store) \ ids)

\* delete_vectors_by_document, mock branch
DeleteByDocument_AnyTenant(store, document_id, tenant_id) ==
    FilterSeq(store,
        { store[k].id : k \in { j \in 1..Len(store) :
            store[j].metadata.document_id # document_id } })

DeleteByDocument(store, document_id, tenant_id) ==
    FilterSeq(store,
        { store[k].id : k \in { j \in 1..Len(store) :
            ~(/\ store[j].metadata.document_id = document_id
              /\ store[j].metadata.tenant_id = tenant_id) } })

Match(e, vector) ==
    [id |-> e.id, score |-> CosineSimilarity(vector, e.values),
     metadata |-> e.metadata]

\* the `scored` list of query_vectors: entries of the tenant in dict order
RECURSIVE Scored(_, _, _)
Scored(store, vector, tenant_id) ==
    IF store = <<>> THEN <<>>
    ELSE IF store[1].metadata.tenant_id = tenant_id
         THEN <<Match(store[1], vector)>> \o Scored(Tail(store), vector, tenant_id)
         ELSE Scored(Tail(store), vector, tenant_id)

\* list.sort(key=score, reverse=True): stable, descending
RECURSIVE InsertDesc(_, _)
InsertDesc(sorted, m) ==
    IF sorted = <<>> THEN <<m>>
    ELSE IF ScoreGT(m.score, sorted[1].score)
         THEN <<m>> \o sorted
         ELSE <<sorted[1]>> \o InsertDesc(Tail(sorted), m)

RECURSIVE SortDesc(_)
SortDesc(list) ==
    IF list = <<>> THEN <<>>
    ELSE InsertDesc(SortDesc(SubSeq(list, 1, Len(list) - 1)), list[Len(list)])

\* query_vectors, mock branch: scored.sort(...); return scored[:top_k]
QueryVectors_Unsorted(store, vector, tenant_id, top_k) ==
    LET scored == Scored(store, vector, tenant_id)
    IN SubSeq(scored, 1, Min(top_k, Len(scored)))

QueryVectors(store, vector, tenant_id, top_k) ==
    LET sorted == SortDesc(Scored(store, vector, tenant_id))
    IN SubSeq(sorted, 1, Min(top_k, Len(sorted)))

\* the vectors a caller may pass: id, values and caller-supplied metadata
InputVectors ==
    [id : VecIds, values : StoredVectors,
     metadata : [tenant_id : Tenants, document_id : Docs]]

\* batches: vectors of one document, one caller-supplied tenant_id
Batches ==
    { b \in UNION { [1..k -> InputVectors] : k \in BatchLens } :
        \A i, j \in 1..Len(b) : b[i].metadata = b[j].metadata }

StoreIdle ==
    /\ mock_store = <<>>
    /\ ns_of = [id \in VecIds |-> NoNs]
    /\ q_result = NoResult
    /\ db_chunks = {}
    /\ rag_result = NoResult

\* upsert_vectors(vectors, tenant_id)
UpsertVectors(vectors, tenant_id) ==
    /\ mock_store' = UpsertAll(mock_store, vectors, tenant_id)
    /\ ns_of' = [id \in VecIds |->
                   IF \E k \in 1..Len(vectors) : vectors[k].id = id
                   THEN tenant_id ELSE ns_of[id]]
    /\ q_result' = NoResult
    /\ rag_result' = NoResult
    /\ UNCHANGED db_chunks
    /\ UNCHANGED <<chunkVars, sessVars, orchVars, otherVars>>

\* delete_vectors(ids, tenant_id)
DeleteVectors(ids, tenant_id) ==
    /\ mock_store' = DeleteIds(mock_store, ids, tenant_id)
    /\ ns_of' = [id \in VecIds |-> IF id \in ids THEN NoNs ELSE ns_of[id]]
    /\ q_result' = NoResult
    /\ rag_result' = NoResult
    /\ UNCHANGED db_chunks
    /\ UNCHANGED <<chunkVars, sessVars, orchVars, otherVars>>

\* delete_vectors_by_document(document_id, tenant_id)
DeleteVectorsByDocument(document_id, tenant_id) ==
    /\ mock_store' = DeleteByDocument(mock_store, document_id, tenant_id)
    /\ ns_of' = [id \in VecIds |->
                   IF id \in StoreIds(mock_store')
                   THEN ns_of[id] ELSE NoNs]
    /\ q_result' = [kind |-> "delete_by_document", tenant_id |-> tenant_id,
                    document_id |-> document_id, before |-> mock_store]
    /\ rag_result' = NoResult
    /\ UNCHANGED db_chunks
    /\ UNCHANGED <<chunkVars, sessVars, orchVars, otherVars>>

\* query_vectors(vector, tenant_id, top_k)
QueryVectorsCall(vector, tenant_id, top_k) ==
    /\ q_result' = [kind |-> "query", tenant_id |-> tenant_id,
                    vector |-> vector, top_k |-> top_k,
                    matches |-> QueryVectors(mock_store, vector, tenant_id, top_k),
                    after |-> IF q_result.kind = "query" THEN q_result.after
                              ELSE q_result]
    /\ rag_result' = NoResult
    /\ UNCHANGED <<mock_store, ns_of, db_chunks>>
    /\ UNCHANGED <<chunkVars, sessVars, orchVars, otherVars>>

StoreNext ==
    \/ \E b \in Batches, t \in Tenants : UpsertVectors(b, t)
    \/ \E ids \in SUBSET VecIds, t \in Tenants : ids # {} /\ DeleteVectors(ids, t)
    \/ \E d \in Docs, t \in Tenants : DeleteVectorsByDocument(d, t)
    \/ \E v \in QueryVectorSet, t \in Tenants, k \in {1, DefaultTopK} :
          QueryVectorsCall(v, t, k)

----------------------------------------------------------------------------
\* rag_query (services/rag_engine.py) on the mock store

MaxContextChunks == 5

\* relevance threshold 0.7 = RelevanceNum / RelevanceDen
RelevanceNum == 7
RelevanceDen == 10

OUT_OF_SCOPE_RESPONSE == "I can only answer questions based on the documents in the knowledge base."

LlmResponse == "llm response"

\* `top_k or settings.max_context_chunks`; 0 stands for None
TopKOrDefault(top_k) == IF top_k = 0 THEN MaxContextChunks ELSE top_k

\* retrieve_context: enrich the matches that have a KnowledgeChunk row of the
\* tenant (chunk_id is the vector id, document_tasks.py:94-99)
RECURSIVE Enrich(_, _, _)
Enrich(results, tenant_id, db) ==
    IF results = <<>> THEN <<>>
    ELSE IF [id |-> results[1].id, tenant_id |-> tenant_id] \in db
         THEN <<[chunk_id |-> results[1].id,
                 document_id |-> results[1].metadata.document_id,
                 score |-> results[1].score]>>
              \o Enrich(Tail(results), tenant_id, db)
         ELSE Enrich(Tail(results), tenant_id, db)

RetrieveContext(store, db, vector, tenant_id, top_k) ==
    Enrich(QueryVectors(store, vector, tenant_id, TopKOrDefault(top_k)),
           tenant_id, db)

Sources(context_chunks) ==
    [k \in 1..Len(context_chunks) |->
        [document_id |-> context_chunks[k].document_id,
         relevance_score |-> context_chunks[k].score]]

\* rag_query: llm_ok tells whether generate_response returns or raises
RagQueryResult_AlwaysGenerate(context_chunks, llm_ok) ==
    IF llm_ok
    THEN [outcome |-> "returned", response |-> LlmResponse,
          sources |-> Sources(context_chunks),
          context_chunks |-> Len(context_chunks), llm_calls |-> 1]
    ELSE [outcome |-> "raised", response |-> "", sources |-> <<>>,
          context_chunks |-> Len(context_chunks), llm_calls |-> 1]

RagQueryResult(context_chunks, llm_ok) ==
    IF context_chunks = <<>>
    THEN [outcome |-> "returned", response |-> OUT_OF_SCOPE_RESPONSE,
          sources |-> <<>>, context_chunks |-> 0, llm_calls |-> 0]
    ELSE IF llm_ok
    THEN [outcome |-> "returned", response |-> LlmResponse,
          sources |-> Sources(context_chunks),
          context_chunks |-> Len(context_chunks), llm_calls |-> 1]
    ELSE [outcome |-> "raised", response |-> "", sources |-> <<>>,
          context_chunks |-> Len(context_chunks), llm_calls |-> 1]

\* rag_query(query, tenant_id, db, top_k); vector is the query's embedding
RagQuery(vector, tenant_id, top_k, llm_ok) ==
    /\ LET matches == QueryVectors(mock_store, vector, tenant_id,
                                   TopKOrDefault(top_k))
           ctx == RetrieveContext(mock_store, db_chunks, vector, tenant_id, top_k)
       IN rag_result' = [kind |-> "rag", tenant_id |-> tenant_id,
                         matches |-> matches, retrieved |-> ctx,
                         result |-> RagQueryResult(ctx, llm_ok)]
    /\ q_result' = NoResult
    /\ UNCHANGED <<mock_store, ns_of, db_chunks>>
    /\ UNCHANGED <<chunkVars, sessVars, orchVars, otherVars>>

\* a KnowledgeChunk row is committed / deleted by the document store
DbInsertChunk(id, tenant_id) ==
    /\ [id |-> id, tenant_id |-> tenant_id] \notin db_chunks
    /\ \A r \in db_chunks : r.id # id
    /\ db_chunks' = db_chunks \cup {[id |-> id, tenant_id |-> tenant_id]}
    /\ q_result' = NoResult
    /\ rag_result' = NoResult
    /\ UNCHANGED <<mock_store, ns_of>>
    /\ UNCHANGED <<chunkVars, sessVars, orchVars, otherVars>>

DbDeleteChunk(id) ==
    /\ \E r \in db_chunks : r.id = id
    /\ db_chunks' = { r \in db_chunks : r.id # id }
    /\ q_result' = NoResult
    /\ rag_result' = NoResult
    /\ UNCHANGED <<mock_store, ns_of>>
    /\ UNCHANGED <<chunkVars, sessVars, orchVars, otherVars>>

SingleBatches == { b \in Batches : Len(b) = 1 }

RagQueryNext ==
    \/ \E b \in SingleBatches, t \in Tenants : UpsertVectors(b, t)
    \/ \E id \in VecIds, t \in Tenants : DbInsertChunk(id, t)
    \/ \E id \in VecIds : DbDeleteChunk(id)
    \/ \E v \in QueryVectorSet, t \in Tenants, k \in {0, 1}, ok \in BOOLEAN :
          RagQuery(v, t, k, ok)

----------------------------------------------------------------------------
\* IntentRouter (services/orchestrator/intent_router.py)

GREETING == "greeting"
HOURS == "hours"
LOCATION == "location"
CONTACT == "contact"
OTHER_INTENT == "other"
NoIntent == "none"

Intents == {GREETING, HOURS, "menu", "price", LOCATION, CONTACT,
            "reservation", "complaint", OTHER_INTENT}

GREETING_PATTERNS == {<<"hi">>, <<"hello">>, <<"hey">>, <<"good", "morning">>,
                      <<"good", "afternoon">>, <<"good", "evening">>}

HOURS_PATTERNS == {"hours", "open", "close", "when", "time"}

CONTACT_PATTERNS == {"phone", "email", "contact", "call", "reach"}

\* words of the vocabulary that contain one of the one-word LOCATION_PATTERNS
\* ("where", "address", "location", "directions") as a substring
LocationWords == {"where", "address", "location", "directions", "nowhere"}

\* str.lower() on the words of the vocabulary
Lower(w) ==
    CASE w = "Hello" -> "hello"
      [] w = "Good" -> "good"
      [] w = "Open" -> "open"
      [] w = "Menu" -> "menu"
      [] OTHER -> w

\* message.lower().strip(), as the sequence of its words
Normalize(message) == [k \in 1..Len(message) |-> Lower(message[k])]

WordSet(message) == { message[k] : k \in 1..Len(message) }

\* "find you" in message: a word ending in "find" followed by one starting with "you"
HasFindYou(message) ==
    \E k \in 1..(Len(message) - 1) :
        message[k] = "find" /\ message[k + 1] \in {"you", "your"}

\* _pattern_match with the HOURS test moved in front of the GREETING test
PatternMatch_HoursFirst(message) ==
    LET words == WordSet(message)
    IN IF words \cap HOURS_PATTERNS # {} THEN HOURS
       ELSE IF (\E w \in words : <<w>> \in GREETING_PATTERNS)
               \/ message \in GREETING_PATTERNS
       THEN GREETING
       ELSE IF words \cap LocationWords # {} \/ HasFindYou(message) THEN LOCATION
       ELSE IF words \cap CONTACT_PATTERNS # {} THEN CONTACT
       ELSE NoIntent

\* IntentRouter._pattern_match on the normalized message
PatternMatch(message) ==
    LET words == WordSet(message)
    IN IF (\E w \in words : <<w>> \in GREETING_PATTERNS)
          \/ message \in GREETING_PATTERNS
       THEN GREETING
       ELSE IF words \cap HOURS_PATTERNS # {} THEN HOURS
       ELSE IF words \cap LocationWords # {} \/ HasFindYou(message) THEN LOCATION
       ELSE IF words \cap CONTACT_PATTERNS # {} THEN CONTACT
       ELSE NoIntent

\* response.strip().lower(), then Intent(intent_str) with ValueError -> OTHER
IntentOfAnswer_Unmapped(answer) == Lower(answer)

IntentOfAnswer(answer) ==
    IF Lower(answer) \in Intents THEN Lower(answer) ELSE OTHER_INTENT

----------------------------------------------------------------------------
\* RAGEngine (services/ai/rag_engine.py), LLMGateway (services/ai/llm_gateway.py)

MaxAttempts == 3
RetrieveTopK == 5

\* scores are in tenths: ScoreUnit stands for 1.0
ScoreUnit == 10
NoScore == -1

FallbackMessage == "I don't have information about that. Please contact us directly."

NoText == ""

KbMatch(score, txt) == [score |-> score, metadata |-> [text |-> txt]]

\* contents of the tenant's namespace as ranked for the query
KbSet == { <<>>,
           <<KbMatch(5, "t1")>>,
           <<KbMatch(7, "t1")>>,
           <<KbMatch(9, "t1"), KbMatch(5, "t2")>>,
           <<KbMatch(NoScore, NoText)>> }

\* match.get("score", 0)
GetScore(match) == IF match.score = NoScore THEN 0 ELSE match.score

\* match.get("score", 0) > 0.7
IsRelevant_AtLeast(match) ==
    GetScore(match) * RelevanceDen >= RelevanceNum * ScoreUnit

IsRelevant(match) ==
    GetScore(match) * RelevanceDen > RelevanceNum * ScoreUnit

\* any(match.get("score", 0) > 0.7 for match in matches)
HasRelevantContext(matches) ==
    \E k \in 1..Len(matches) : IsRelevant(matches[k])

\* results.get("matches", []) of VectorStore.query(..., top_k)
TopMatches(store, top_k) == SubSeq(store, 1, Min(top_k, Len(store)))

\* context_texts of generate_response: the non-empty metadata texts
RECURSIVE ContextTexts(_)
ContextTexts(matches) ==
    IF matches = <<>> THEN <<>>
    ELSE IF matches[1].metadata.text # NoText
         THEN <<matches[1].metadata.text>> \o ContextTexts(Tail(matches))
         ELSE ContextTexts(Tail(matches))

\* PromptManager.build_rag_prompt: NO_CONTEXT_PROMPT for a blank context
BuildRagPrompt(query, context_texts) ==
    IF context_texts = <<>>
    THEN [template |-> "NO_CONTEXT_PROMPT", query |-> query, context |-> <<>>]
    ELSE [template |-> "RAG_PROMPT_TEMPLATE", query |-> query,
          context |-> context_texts]

\* PromptManager.build_greeting_prompt(client_name)
ClientName == "Business"

GreetingResponse(client_name) == [kind |-> "greeting", client_name |-> client_name]

GeneratedResponse(prompt) == [kind |-> "generated", prompt |-> prompt]

FallbackResponse == [kind |-> "fallback", text |-> FallbackMessage]

NoResponse == [kind |-> "none"]

\* `if history:` selects generate_with_history, which has no @retry
UsesRetry(history) == history = <<>>

\* tenacity stop_after_attempt(3) on LLMGateway.generate
AttemptsAllowed_OneMore(retrying) == IF retrying THEN MaxAttempts + 1 ELSE 1

AttemptsAllowed(retrying) == IF retrying THEN MaxAttempts ELSE 1

----------------------------------------------------------------------------
\* ChatOrchestrator (services/orchestrator/chat_orchestrator.py)

Calls == {"p1", "p2"}

NoConv == "none"

Messages == { <<"Hello">>, <<"good", "morning">>, <<"open">>, <<"pizza">>,
              <<"Hello", "open">>, <<"open", "where">>, <<"where", "phone">>,
              <<"phone">> }

ClassifierAnswers == {"greeting", "Menu", "gibberish"}

\* no answer: llm.generate was not called, or it raised
NoAnswer == "none"

NoPrompt == [template |-> "none"]

IdleCall ==
    [pc |-> "idle", entry |-> "none", message |-> <<>>, conv |-> NoConv,
     intent |-> NoIntent, cls_answer |-> NoAnswer, history |-> <<>>,
     checked |-> <<>>,
     matches |-> <<>>, prompt |-> NoPrompt, response |-> NoResponse,
     attempts |-> 0, outcome |-> "pending", error |-> "none",
     gen_calls |-> 0, cls_calls |-> 0, emb_calls |-> 0, vq_calls |-> 0,
     redis_ops |-> 0]

OrchIdle ==
    /\ calls = [p \in Calls |-> IdleCall]
    /\ arrivals = <<>>
    /\ kb = <<>>
    /\ redis_up = TRUE

InitOrchOnly ==
    /\ calls = [p \in Calls |-> IdleCall]
    /\ arrivals = <<>>
    /\ kb \in KbSet
    /\ redis_up = TRUE

\* the call ends with the exception raised by the named collaborator
\* the exception is caught and the fixed fallback message is returned instead
Raise_Swallowed(c, err) ==
    [c EXCEPT !.pc = "done", !.outcome = "returned", !.error = err,
              !.response = FallbackResponse]

\* an exception leaves process_message / generate_with_fallback uncaught
Raise(c, err) == [c EXCEPT !.pc = "done", !.outcome = "raised", !.error = err]

Return(c, response) ==
    [c EXCEPT !.pc = "done", !.outcome = "returned", !.response = response]

UserMsg(p, c) == [role |-> "user", content |-> [call |-> p, text |-> c.message]]

AssistantMsg(p, c) ==
    [role |-> "assistant", content |-> [call |-> p, text |-> c.response]]

\* `if intent == Intent.GREETING` of process_message
RespondsWithGreeting(intent) == intent = GREETING

\* step 5 of process_message: `if conversation_id:` save, then return
AfterResponse_NoSave(c, response) == Return(c, response)

AfterResponse(c, response) ==
    IF c.entry = "process_message" /\ c.conv # NoConv
    THEN [c EXCEPT !.pc = "save_user_push", !.response = response]
    ELSE Return(c, response)

OrchFrame == UNCHANGED <<chunkVars, storeVars, otherVars, appended, max_history,
                         n_appends, sess_result>>

\* a caller issues process_message(message, ..., conversation_id)
ProcessMessage(p, message, conv) ==
    /\ calls[p].pc = "idle"
    /\ calls' = [calls EXCEPT ![p] =
                   [@ EXCEPT !.pc = "get_context", !.entry = "process_message",
                             !.message = message, !.conv = conv]]
    /\ arrivals' = Append(arrivals, p)
    /\ UNCHANGED <<kb, redis_up, redis_hist>>
    /\ OrchFrame

\* step 1: `if conversation_id: context = await get_context(conversation_id)`
GetContextStep(p) ==
    LET c == calls[p]
    IN /\ c.pc = "get_context"
       /\ calls' = [calls EXCEPT ![p] =
            IF c.conv = NoConv THEN [c EXCEPT !.pc = "classify"]
            ELSE IF ~redis_up
            THEN Raise([c EXCEPT !.redis_ops = @ + 1], "session_store")
            ELSE [c EXCEPT !.pc = "classify", !.redis_ops = @ + 1]]
       /\ UNCHANGED <<arrivals, kb, redis_up, redis_hist>>
       /\ OrchFrame

\* step 2: IntentRouter.classify, fast path
ClassifyFast(p) ==
    LET c == calls[p]
        pattern_intent == PatternMatch(Normalize(c.message))
    IN /\ c.pc = "classify"
       /\ calls' = [calls EXCEPT ![p] =
            IF pattern_intent # NoIntent
            THEN [c EXCEPT !.pc = "get_history", !.intent = pattern_intent]
            ELSE [c EXCEPT !.pc = "classify_llm", !.attempts = 0]]
       /\ UNCHANGED <<arrivals, kb, redis_up, redis_hist>>
       /\ OrchFrame

\* step 2: IntentRouter._llm_classify, one provider attempt of llm.generate
ClassifyLlmAttempt(p, ok, answer) ==
    LET c == calls[p]
        c1 == [c EXCEPT !.cls_calls = @ + 1, !.attempts = @ + 1]
    IN /\ c.pc = "classify_llm"
       /\ calls' = [calls EXCEPT ![p] =
            IF ok
            THEN [c1 EXCEPT !.pc = "get_history", !.attempts = 0,
                            !.cls_answer = answer,
                            !.intent = IntentOfAnswer(answer)]
            ELSE IF c1.attempts < AttemptsAllowed(TRUE)
            THEN c1
            ELSE [c1 EXCEPT !.pc = "get_history", !.attempts = 0,
                            !.intent = OTHER_INTENT]]
       /\ UNCHANGED <<arrivals, kb, redis_up, redis_hist>>
       /\ OrchFrame

\* steps 3 and 4: get_history, then the dispatch on the intent
GetHistoryStep(p) ==
    LET c == calls[p]
        hist == IF c.conv = NoConv THEN <<>>
                ELSE GetHistoryList(redis_hist[c.conv], DefaultHistoryLimit)
        c1 == IF c.conv = NoConv THEN c
              ELSE [c EXCEPT !.history = hist, !.redis_ops = @ + 1]
    IN /\ c.pc = "get_history"
       /\ calls' = [calls EXCEPT ![p] =
            IF c.conv # NoConv /\ ~redis_up THEN Raise(c1, "session_store")
            ELSE IF RespondsWithGreeting(c.intent)
            THEN AfterResponse(c1, GreetingResponse(ClientName))
            ELSE [c1 EXCEPT !.pc = "gr_embed"]]
       /\ UNCHANGED <<arrivals, kb, redis_up, redis_hist>>
       /\ OrchFrame

\* retrieve_context: `await self.embedder.embed(query)`
EmbedStep(p, ok) ==
    LET c == calls[p]
        c1 == [c EXCEPT !.emb_calls = @ + 1]
    IN /\ c.pc \in {"gr_embed", "fb_embed"}
       /\ calls' = [calls EXCEPT ![p] =
            IF ~ok THEN Raise(c1, "embedding")
            ELSE [c1 EXCEPT !.pc = IF c.pc = "gr_embed" THEN "gr_query"
                                   ELSE "fb_query"]]
       /\ UNCHANGED <<arrivals, kb, redis_up, redis_hist>>
       /\ OrchFrame

\* generate_response: VectorStore.query, then context and prompt building
QueryStep(p, ok) ==
    LET c == calls[p]
        c1 == [c EXCEPT !.vq_calls = @ + 1]
        matches == TopMatches(kb, RetrieveTopK)
    IN /\ c.pc = "gr_query"
       /\ calls' = [calls EXCEPT ![p] =
            IF ~ok THEN Raise(c1, "vector_store")
            ELSE [c1 EXCEPT !.pc = "gr_gen", !.matches = matches,
                            !.attempts = 0,
                            !.prompt = BuildRagPrompt(c.message,
                                                      ContextTexts(matches))]]
       /\ UNCHANGED <<arrivals, kb, redis_up, redis_hist>>
       /\ OrchFrame

\* generate_response step 4: one provider attempt of llm.generate (retried)
\* or of llm.generate_with_history (not retried)
GenAttempt(p, ok) ==
    LET c == calls[p]
        c1 == [c EXCEPT !.gen_calls = @ + 1, !.attempts = @ + 1]
    IN /\ c.pc = "gr_gen"
       /\ calls' = [calls EXCEPT ![p] =
            IF ok THEN AfterResponse(c1, GeneratedResponse(c.prompt))
            ELSE IF c1.attempts < AttemptsAllowed(UsesRetry(c.history))
            THEN c1
            ELSE Raise(c1, "generation")]
       /\ UNCHANGED <<arrivals, kb, redis_up, redis_hist>>
       /\ OrchFrame

\* add_message: `await r.rpush(key, message)`
SavePush(p) ==
    LET c == calls[p]
        msg == IF c.pc = "save_user_push" THEN UserMsg(p, c)
               ELSE AssistantMsg(p, c)
    IN /\ c.pc \in {"save_user_push", "save_asst_push"}
       /\ IF ~redis_up
          THEN /\ calls' = [calls EXCEPT ![p] =
                    Raise([c EXCEPT !.redis_ops = @ + 1], "session_store")]
               /\ UNCHANGED redis_hist
          ELSE /\ calls' = [calls EXCEPT ![p] =
                    [c EXCEPT !.redis_ops = @ + 1,
                              !.pc = IF c.pc = "save_user_push"
                                     THEN "save_user_trim" ELSE "save_asst_trim"]]
               /\ redis_hist' = [redis_hist EXCEPT ![c.conv] =
                                   RPush(@, JsonDumps(msg))]
       /\ UNCHANGED <<arrivals, kb, redis_up>>
       /\ OrchFrame

\* add_message: `await r.ltrim(key, -max_history, -1)` and `await r.expire`
SaveTrim(p) ==
    LET c == calls[p]
    IN /\ c.pc \in {"save_user_trim", "save_asst_trim"}
       /\ IF ~redis_up
          THEN /\ calls' = [calls EXCEPT ![p] =
                    Raise([c EXCEPT !.redis_ops = @ + 1], "session_store")]
               /\ UNCHANGED redis_hist
          ELSE /\ calls' = [calls EXCEPT ![p] =
                    IF c.pc = "save_user_trim"
                    THEN [c EXCEPT !.redis_ops = @ + 1, !.pc = "save_asst_push"]
                    ELSE Return([c EXCEPT !.redis_ops = @ + 1], c.response)]
               /\ redis_hist' = [redis_hist EXCEPT ![c.conv] =
                                   LTrim(@, -DefaultMaxHistory, -1)]
       /\ UNCHANGED <<arrivals, kb, redis_up>>
       /\ OrchFrame

\* the session store becomes unreachable / reachable again
RedisOutage ==
    /\ redis_up
    /\ redis_up' = FALSE
    /\ UNCHANGED <<calls, arrivals, kb, redis_hist>>
    /\ OrchFrame

RedisRecover ==
    /\ ~redis_up
    /\ redis_up' = TRUE
    /\ UNCHANGED <<calls, arrivals, kb, redis_hist>>
    /\ OrchFrame

\* a caller issues RAGEngine.generate_with_fallback(query, ..., history=...)
GenerateWithFallback(p, query, history) ==
    /\ calls[p].pc = "idle"
    /\ calls' = [calls EXCEPT ![p] =
                   [@ EXCEPT !.pc = "fb_embed", !.entry = "generate_with_fallback",
                             !.message = query, !.history = history]]
    /\ arrivals' = Append(arrivals, p)
    /\ UNCHANGED <<kb, redis_up, redis_hist>>
    /\ OrchFrame

\* generate_with_fallback: the query of its own retrieve_context, then the
\* relevance check
FallbackCheck(p, ok) ==
    LET c == calls[p]
        c1 == [c EXCEPT !.vq_calls = @ + 1]
        matches == TopMatches(kb, RetrieveTopK)
    IN /\ c.pc = "fb_query"
       /\ calls' = [calls EXCEPT ![p] =
            IF ~ok THEN Raise(c1, "vector_store")
            ELSE IF ~HasRelevantContext(matches)
            THEN Return([c1 EXCEPT !.checked = <<matches>>], FallbackResponse)
            ELSE [c1 EXCEPT !.pc = "gr_embed", !.checked = <<matches>>]]
       /\ UNCHANGED <<arrivals, kb, redis_up, redis_hist>>
       /\ OrchFrame

\* another operation replaces or deletes the tenant's vectors
KbChange(newKb) ==
    /\ newKb # kb
    /\ \E p \in Calls : calls[p].pc \notin {"idle", "done"}
    /\ kb' = newKb
    /\ UNCHANGED <<calls, arrivals, redis_up, redis_hist>>
    /\ OrchFrame

RagSteps(p) ==
    \/ \E ok \in BOOLEAN : EmbedStep(p, ok)
    \/ \E ok \in BOOLEAN : QueryStep(p, ok)
    \/ \E ok \in BOOLEAN : GenAttempt(p, ok)

\* the steps of one process_message call, every provider outcome possible
OrchSteps(p) ==
    \/ GetContextStep(p)
    \/ ClassifyFast(p)
    \/ \E ok \in BOOLEAN, a \in ClassifierAnswers : ClassifyLlmAttempt(p, ok, a)
    \/ GetHistoryStep(p)
    \/ RagSteps(p)
    \/ SavePush(p)
    \/ SaveTrim(p)

\* one process_message call, on a conversation that is new or has the
\* history of an earlier exchange
OrchNext ==
    \/ \E m \in Messages, conv \in {NoConv, "c1"} : ProcessMessage("p1", m, conv)
    \/ OrchSteps("p1")
    \/ RedisOutage
    \/ RedisRecover

\* the steps of a call while every provider and the session store answer
OrchStepsOk(p) ==
    \/ GetContextStep(p)
    \/ ClassifyFast(p)
    \/ GetHistoryStep(p)
    \/ EmbedStep(p, TRUE)
    \/ QueryStep(p, TRUE)
    \/ GenAttempt(p, TRUE)
    \/ SavePush(p)
    \/ SaveTrim(p)

OverlapMessages == { <<"Hello">>, <<"open">> }

\* two process_message calls for the same conversation that may overlap in
\* time
OverlapNext ==
    \/ \E p \in Calls, m \in OverlapMessages : ProcessMessage(p, m, "c1")
    \/ \E p \in Calls : OrchStepsOk(p)

SampleHistory == <<[role |-> "user", content |-> "earlier question"]>>

\* one generate_with_fallback call while the tenant's vectors may change
FallbackNext ==
    \/ \E m \in Messages, h \in {<<>>, SampleHistory} :
          GenerateWithFallback("p1", m, h)
    \/ \E ok \in BOOLEAN : FallbackCheck("p1", ok)
    \/ RagSteps("p1")
    \/ \E k \in KbSet : KbChange(k)

\* the history left in Redis by an earlier exchange of the conversation
PriorHistory ==
    << JsonDumps([role |-> "user",
                  content |-> [call |-> "p0", text |-> <<"Hello">>]]),
       JsonDumps([role |-> "assistant",
                  content |-> [call |-> "p0",
                               text |-> GreetingResponse(ClientName)]]) >>

SessWith(h) ==
    /\ redis_hist = [c \in ConvIds |-> IF c = "c1" THEN h ELSE <<>>]
    /\ appended = [c \in ConvIds |-> <<>>]
    /\ max_history = DefaultMaxHistory
    /\ n_appends = 0
    /\ sess_result = NoResult

----------------------------------------------------------------------------
\* process_document_task (workers/document_tasks.py)

\* @shared_task(bind=True, max_retries=3)
MaxRetries == 3

\* str(e)[:500]
ErrorLimit == 500

\* lengths of str(e) for the exceptions of the collaborators
ErrorLens == {0, 499, 500, 501}

\* numbers of chunks chunk_text can return
ChunkCounts == {0, 1, 2}

NoError == [kind |-> "none"]

\* a message: the text it is a prefix of, and its length
ErrorText(of, len) == [kind |-> "text", of |-> of, len |-> len]

\* the fixed messages of the two early returns
NoTextMessage == ErrorText("No text content extracted from document", 39)
NoChunksMessage == ErrorText("Failed to create text chunks", 28)

\* str(e)[:500]
TruncateError_Whole(msg) == msg

TruncateError(msg) == ErrorText(msg.of, Min(msg.len, ErrorLimit))

\* the task as queued for a document whose file chunk_text splits into
\* file_chunks chunks.  chunk_count, doc_rows and doc_vectors belong to the
\* document and outlive a run: its chunk_count column, its committed
\* KnowledgeChunk rows and the vectors stored with its document_id.
QueuedTask(found, file_chunks) ==
    [pc |-> "queued", found |-> found, status |-> "uploading",
     processing_error |-> NoError, retries |-> 0, n_chunks |-> 0,
     rows_pending |-> 0, rows_committed |-> 0, upserted |-> 0,
     exc |-> NoError, retry_calls |-> 0, result |-> "none",
     file_chunks |-> file_chunks, chunk_count |-> 0, doc_rows |-> 0,
     doc_vectors |-> 0]

TaskIdle == task = QueuedTask(TRUE, 0)

\* the early returns: the status and message are committed, no exception
ReturnError(t, msg) ==
    [t EXCEPT !.pc = "ended", !.status = "failed", !.processing_error = msg,
              !.result = "error"]

\* `except Exception as e`: rollback, status failed with the truncated
\* message, commit, then `raise self.retry(exc=e, countdown=60)`
HandleException(t, at, len) ==
    LET e == ErrorText(at, len)
    IN [t EXCEPT !.rows_pending = 0,
                 !.status = "failed",
                 !.processing_error = TruncateError(e),
                 !.exc = e,
                 !.retry_calls = @ + 1,
                 !.pc = IF t.retries < MaxRetries THEN "retry_scheduled"
                        ELSE "ended",
                 !.result = IF t.retries < MaxRetries THEN "retry"
                            ELSE "raised"]

TaskFrame == UNCHANGED <<chunkVars, sessVars, storeVars, orchVars,
                         deployment, retr>>

\* a worker starts a run (the first one or a retry): fetch the document,
\* set status processing, commit
TaskStart ==
    /\ task.pc \in {"queued", "retry_scheduled"}
    /\ task' =
         LET t == [task EXCEPT !.retries = IF task.pc = "queued" THEN 0 ELSE @ + 1,
                               !.exc = NoError, !.retry_calls = 0,
                               !.n_chunks = 0, !.rows_pending = 0,
                               !.rows_committed = 0, !.upserted = 0]
         IN IF ~task.found
            THEN [t EXCEPT !.pc = "ended", !.result = "error"]
            ELSE [t EXCEPT !.pc = "extract", !.status = "processing"]
    /\ TaskFrame

\* extract_text, then `if not text.strip()`
ExtractText(outcome, len) ==
    /\ task.pc = "extract"
    /\ task' = CASE outcome = "raise" -> HandleException(task, "extract_text", len)
                 [] outcome = "blank" -> ReturnError(task, NoTextMessage)
                 [] OTHER -> [task EXCEPT !.pc = "chunk"]
    /\ TaskFrame

\* chunk_text, then `if not chunks`
ChunkText(ok, n, len) ==
    /\ task.pc = "chunk"
    /\ n = task.file_chunks
    /\ task' = IF ~ok THEN HandleException(task, "chunk_text", len)
               ELSE IF n = 0 THEN ReturnError(task, NoChunksMessage)
               ELSE [task EXCEPT !.pc = "embed", !.n_chunks = n]
    /\ TaskFrame

\* generate_embeddings, then the loop that adds one KnowledgeChunk row per
\* chunk to the session
GenerateEmbeddings(ok, len) ==
    /\ task.pc = "embed"
    /\ task' = IF ~ok THEN HandleException(task, "generate_embeddings", len)
               ELSE [task EXCEPT !.pc = "upsert", !.rows_pending = task.n_chunks]
    /\ TaskFrame

\* upsert_vectors(vectors, tenant_id): one vector per chunk, each under the
\* fresh uuid4 of its chunk
StoreVectors(ok, len) ==
    /\ task.pc = "upsert"
    /\ task' = IF ~ok THEN HandleException(task, "upsert_vectors", len)
               ELSE [task EXCEPT !.pc = "commit",
                                 !.upserted = task.n_chunks,
                                 !.doc_vectors = @ + task.n_chunks]
    /\ TaskFrame

\* status ready, chunk_count = len(chunks), then the commit of the document
\* and of the added rows; a commit that raises is handled like every other
\* exception
CommitReady(ok, len) ==
    /\ task.pc = "commit"
    /\ task' = IF ~ok THEN HandleException(task, "commit", len)
               ELSE [task EXCEPT !.pc = "ended", !.status = "ready",
                                 !.chunk_count = task.n_chunks,
                                 !.rows_committed = task.rows_pending,
                                 !.doc_rows = @ + task.rows_pending,
                                 !.rows_pending = 0,
                                 !.result = "success"]
    /\ TaskFrame

TaskNext ==
    \/ TaskStart
    \/ \E o \in {"raise", "blank", "text"}, len \in ErrorLens : ExtractText(o, len)
    \/ \E ok \in BOOLEAN, n \in ChunkCounts, len \in ErrorLens : ChunkText(ok, n, len)
    \/ \E ok \in BOOLEAN, len \in ErrorLens : GenerateEmbeddings(ok, len)
    \/ \E ok \in BOOLEAN, len \in ErrorLens : StoreVectors(ok, len)
    \/ \E ok \in BOOLEAN, len \in ErrorLens : CommitReady(ok, len)

----------------------------------------------------------------------------
\* provider dispatch of the vector store (services/vector_store.py) and
\* application startup (main.py)

MaxRequests == 3

VectorDbProviders == {"mock", "pinecone", "weaviate"}

EmbeddingProviders == {"mock", "openai"}

StoreOps == {"upsert_vectors", "query_vectors", "delete_vectors",
             "delete_vectors_by_document"}

\* MOCK_EMBEDDING_DIM, and the 1536 dimensions of the OpenAI embeddings and
\* of the Pinecone index
MOCK_EMBEDDING_DIM == 384
PineconeDim == 1536

EmbeddingDim(provider) ==
    IF provider = "mock" THEN MOCK_EMBEDDING_DIM ELSE PineconeDim

\* _check_pinecone_embedding_compat: TRUE when it raises
CheckRaises(settings) ==
    /\ settings.vector_db_provider = "pinecone"
    /\ settings.embedding_provider = "mock"

\* the branch a request ends in: only upsert_vectors and query_vectors call
\* the check, and only when the provider is pinecone
RequestOutcome(op, settings) ==
    IF /\ op \in {"upsert_vectors", "query_vectors"}
       /\ settings.vector_db_provider = "pinecone"
       /\ CheckRaises(settings)
    THEN "mismatch_error"
    ELSE IF settings.vector_db_provider = "mock" THEN "mock_store"
    ELSE IF settings.vector_db_provider = "pinecone" THEN "pinecone"
    ELSE "unknown_provider_error"

Deployed(settings) == [settings |-> settings, started |-> FALSE, log |-> <<>>]

DeployIdle ==
    deployment = Deployed([vector_db_provider |-> "mock",
                           embedding_provider |-> "mock"])

InitDeployOnly ==
    \E v \in VectorDbProviders, e \in EmbeddingProviders :
        deployment = Deployed([vector_db_provider |-> v, embedding_provider |-> e])

DeployFrame == UNCHANGED <<chunkVars, sessVars, storeVars, orchVars, task, retr>>

\* lifespan(): startup logs and yields, the application starts serving
StartApp ==
    /\ ~deployment.started
    /\ deployment' = [deployment EXCEPT !.started = TRUE]
    /\ DeployFrame

\* one upsert, query or delete request reaches the vector-store module
StoreRequest(op) ==
    /\ deployment.started
    /\ Len(deployment.log) < MaxRequests
    /\ deployment' = [deployment EXCEPT !.log =
         Append(@, [op |-> op,
                    outcome |-> RequestOutcome(op, deployment.settings)])]
    /\ DeployFrame

DeployNext ==
    \/ StartApp
    \/ \E op \in StoreOps : StoreRequest(op)

----------------------------------------------------------------------------
\* KnowledgeRetriever (services/knowledge/retriever.py)

MaxMatches == 3

\* char_limit = max_tokens * 4
CharsPerToken == 4

MaxTokensArgs == {0, 1, 2}

RetrTexts == { <<>>, <<"a">>, <<"b", "b", "b">>, <<"c", "c", "c", "c", "c">> }

RetrScores == {5, -5}

\* what VectorStore.query returns: matches by non-increasing score
RankedResults ==
    { r \in SeqsUpTo([score : RetrScores, text : RetrTexts], MaxMatches) :
        \A k \in 1..(Len(r) - 1) : r[k].score >= r[k + 1].score }

\* search(): the matches with score >= min_score, in the order returned
RECURSIVE Search(_, _)
Search(results, min_score) ==
    IF results = <<>> THEN <<>>
    ELSE IF results[1].score >= min_score
         THEN <<results[1]>> \o Search(Tail(results), min_score)
         ELSE Search(Tail(results), min_score)

\* the loop of get_context: context_parts, stopping at the first text that
\* would exceed char_limit
RECURSIVE ContextParts(_, _, _)
ContextParts(matches, total_chars, char_limit) ==
    IF matches = <<>> THEN <<>>
    ELSE IF total_chars + Len(matches[1].text) > char_limit
         THEN <<>>
         ELSE <<matches[1].text>>
              \o ContextParts(Tail(matches),
                              total_chars + Len(matches[1].text), char_limit)

\* "\n\n".join(context_parts)
RECURSIVE JoinParts(_)
JoinParts(parts) ==
    IF parts = <<>> THEN <<>>
    ELSE IF Len(parts) = 1 THEN parts[1]
    ELSE parts[1] \o <<"\n", "\n">> \o JoinParts(Tail(parts))

GetContext_CutAtLimit(results, max_tokens) ==
    LET ms == Search(results, 0)
        all == JoinParts([k \in 1..Len(ms) |-> ms[k].text])
    IN SubSeq(all, 1, Min(Len(all), max_tokens * CharsPerToken))

GetContext(results, max_tokens) ==
    JoinParts(ContextParts(Search(results, 0), 0, max_tokens * CharsPerToken))

RetrCall(results, max_tokens) ==
    [pc |-> "called", results |-> results, max_tokens |-> max_tokens,
     context |-> <<>>]

RetrIdle == retr = RetrCall(<<>>, 0)

InitRetrOnly ==
    \E r \in RankedResults, t \in MaxTokensArgs : retr = RetrCall(r, t)

\* get_context(query, client_id, top_k, max_tokens) runs to its return
GetContextCall ==
    /\ retr.pc = "called"
    /\ retr' = [retr EXCEPT !.pc = "returned",
                            !.context = GetContext(retr.results, retr.max_tokens)]
    /\ UNCHANGED <<chunkVars, sessVars, storeVars, orchVars, task, deployment>>

OtherIdle == TaskIdle /\ DeployIdle /\ RetrIdle

----------------------------------------------------------------------------
\* Specifications

InitChunk == InitChunkOnly /\ SessIdle /\ StoreIdle /\ OrchIdle /\ OtherIdle

NextChunk == ChunkNext

SpecChunk == InitChunk /\ [][NextChunk]_vars

NextIndexed == ChunkNext \/ ChunkTextCall

SpecIndexed == InitChunk /\ [][NextIndexed]_vars

NextSeparators == SeparatorsNext

SpecSeparators == InitChunk /\ [][NextSeparators]_vars

InitSession == InitSessOnly /\ ChunkIdle /\ StoreIdle /\ OrchIdle /\ OtherIdle

NextSession == SessNext

SpecSession == InitSession /\ [][NextSession]_vars

InitStore == StoreIdle /\ ChunkIdle /\ SessIdle /\ OrchIdle /\ OtherIdle

NextStore == StoreNext

SpecStore == InitStore /\ [][NextStore]_vars

InitRagQuery == StoreIdle /\ ChunkIdle /\ SessIdle /\ OrchIdle /\ OtherIdle

NextRagQuery == RagQueryNext

SpecRagQuery == InitRagQuery /\ [][NextRagQuery]_vars

InitOrch ==
    /\ InitOrchOnly /\ ChunkIdle /\ StoreIdle /\ OtherIdle
    /\ \E h \in {<<>>, PriorHistory} : SessWith(h)

NextOrch == OrchNext

SpecOrch == InitOrch /\ [][NextOrch]_vars

InitFallback == InitOrchOnly /\ ChunkIdle /\ SessIdle /\ StoreIdle /\ OtherIdle

NextFallback == FallbackNext

SpecFallback == InitFallback /\ [][NextFallback]_vars

InitOverlap == InitOrchOnly /\ ChunkIdle /\ SessIdle /\ StoreIdle /\ OtherIdle

NextOverlap == OverlapNext

SpecOverlap == InitOverlap /\ [][NextOverlap]_vars

CoreIdle == ChunkIdle /\ SessIdle /\ StoreIdle /\ OrchIdle

InitTask ==
    /\ CoreIdle /\ DeployIdle /\ RetrIdle
    /\ \E found \in BOOLEAN, n \in ChunkCounts : task = QueuedTask(found, n)

NextTask == TaskNext

SpecTask == InitTask /\ [][NextTask]_vars

InitDeploy == CoreIdle /\ TaskIdle /\ RetrIdle /\ InitDeployOnly

NextDeploy == DeployNext

SpecDeploy == InitDeploy /\ [][NextDeploy]_vars

InitRetr == CoreIdle /\ TaskIdle /\ DeployIdle /\ InitRetrOnly

NextRetr == GetContextCall

SpecRetr == InitRetr /\ [][NextRetr]_vars

----------------------------------------------------------------------------
\* Claims

AboveThreshold(sc) == ScoreAbove(sc, RelevanceNum, RelevanceDen)

IsOutOfScope(r) ==
    /\ r.outcome = "returned"
    /\ r.response = OUT_OF_SCOPE_RESPONSE
    /\ r.sources = <<>>
    /\ r.context_chunks = 0
    /\ r.llm_calls = 0

C2_TenantIsolation ==
    /\ q_result.kind = "query" =>
          \A k \in 1..Len(q_result.matches) :
              q_result.matches[k].metadata.tenant_id = q_result.tenant_id
    /\ \A k \in 1..Len(mock_store) :
          mock_store[k].metadata.tenant_id = ns_of[mock_store[k].id]

\* witness of C2: both tenants have records, one of them was upserted with
\* another tenant's id in its metadata, and a query returned matches
C2_Witness ==
    /\ q_result.kind = "query"
    /\ Len(q_result.matches) >= 1
    /\ \E k \in 1..Len(mock_store) :
          mock_store[k].metadata.tenant_id # q_result.tenant_id

\* the last k elements of s
LastN(s, k) == SubSeq(s, Len(s) - Min(Len(s), k) + 1, Len(s))

\* C5: after any sequence of add_message calls on a conversation, all with
\* max_history = m >= 1, the stored history is exactly the last min(n, m)
\* appended messages in append order.
C5_HistoryIsLastM ==
    \A c \in ConvIds :
        DecodeAll(redis_hist[c]) = LastN(appended[c], max_history)

\* witness of C5: more messages were appended than max_history and the
\* oldest ones were dropped
C5_Witness ==
    \E c \in ConvIds :
        /\ Len(appended[c]) > max_history
        /\ Len(redis_hist[c]) = max_history
        /\ max_history >= 2

\* positions (0-based) of the non-whitespace characters of the input
ContentPositions == { p \in 0..(Len(text) - 1) : PyAt(text, p) \notin Whitespace }

CoveredBy(p, ch) == ch.start_char <= p /\ p < ch.end_char

\* C3: the window start strictly advances on every iteration of the loop of
\* TextChunker.chunk (so the loop terminates), also on iterations whose
\* window was too short to be emitted.
C3_StartAdvances ==
    (cpc = "loop" /\ iters > 0) => start > prev_start

\* C4: chunk() loses no content: when it returns, every non-whitespace
\* character position of the input lies in the [start_char, end_char) span of
\* at least one emitted chunk.
C4_NoContentLost ==
    cpc = "done" =>
        \A p \in ContentPositions :
            \E k \in 1..Len(chunks) : CoveredBy(p, chunks[k])

\* no match scores strictly above the relevance threshold 0.7
NoneAboveThreshold(matches) ==
    \A k \in 1..Len(matches) :
        matches[k].score * RelevanceDen <= RelevanceNum * ScoreUnit

\* C1: process_message never returns a model-generated answer when retrieval
\* produced no match above the relevance threshold: for a non-GREETING
\* message the generation provider is not called and the response is the
\* fixed out-of-scope message.
C1_NoAnswerWithoutRelevantContext ==
    \A p \in Calls :
        (/\ calls[p].entry = "process_message"
         /\ calls[p].outcome = "returned"
         /\ calls[p].intent # GREETING
         /\ NoneAboveThreshold(calls[p].matches))
        => (calls[p].gen_calls = 0 /\ calls[p].response = FallbackResponse)

\* C6: when two process_message calls of one conversation have returned, the
\* history holds each call's user message immediately followed by that
\* call's assistant response, the pairs in arrival order.
C6_HistoryInArrivalOrder ==
    (\A p \in Calls : calls[p].outcome = "returned")
    => DecodeAll(redis_hist["c1"]) =
         << UserMsg(arrivals[1], calls[arrivals[1]]),
            AssistantMsg(arrivals[1], calls[arrivals[1]]),
            UserMsg(arrivals[2], calls[arrivals[2]]),
            AssistantMsg(arrivals[2], calls[arrivals[2]]) >>

\* C7: generate_with_fallback makes no generation-provider call before its
\* relevance check, and when no retrieved match scores strictly above 0.7
\* (empty list and a score of exactly 0.7 included) it returns the fixed
\* fallback message without any generation-provider call.
C7_FallbackWithoutGeneration ==
    \A p \in Calls :
        calls[p].entry = "generate_with_fallback" =>
            /\ calls[p].checked = <<>> => calls[p].gen_calls = 0
            /\ (calls[p].checked # <<>> /\ NoneAboveThreshold(calls[p].checked[1]))
               => /\ calls[p].gen_calls = 0
                  /\ calls[p].outcome = "returned"
                  /\ calls[p].response = FallbackResponse

\* witness of C7: the only retrieved match scores exactly 0.7 and the call
\* returned the fallback message
C7_Witness ==
    \E p \in Calls :
        /\ calls[p].entry = "generate_with_fallback"
        /\ calls[p].checked = << <<KbMatch(7, "t1")>> >>
        /\ calls[p].outcome = "returned"
        /\ calls[p].response = FallbackResponse

\* C9: every process_message call whose message the fast path classifies as
\* GREETING, with or without a conversation_id, causes no generation-provider
\* call, no embedding call and no vector-store query, and ends by returning
\* the canned greeting built from the tenant name with intent greeting.
C9_GreetingFastPath ==
    \A p \in Calls :
        (/\ calls[p].entry = "process_message"
         /\ PatternMatch(Normalize(calls[p].message)) = GREETING)
        => /\ calls[p].gen_calls = 0
           /\ calls[p].cls_calls = 0
           /\ calls[p].emb_calls = 0
           /\ calls[p].vq_calls = 0
           /\ calls[p].pc = "done"
              => /\ calls[p].outcome = "returned"
                 /\ calls[p].response = GreetingResponse(ClientName)
                 /\ calls[p].intent = GREETING

\* C10: an unreachable session store never makes process_message fail: no
\* call ends with the exception of a get_context, get_history or add_message.
C10_SessionOutageTolerated ==
    \A p \in Calls :
        calls[p].entry = "process_message" => calls[p].error # "session_store"

\* C11: a retrieval failure during process_message degrades gracefully: no
\* process_message call ends with the exception of the embedding call or of
\* the vector-store query.
C11_RetrievalFailureDegrades ==
    \A p \in Calls :
        calls[p].entry = "process_message"
        => calls[p].error \notin {"embedding", "vector_store"}

\* C12: one LLMGateway.generate call (the path taken with empty history)
\* invokes the provider at most 3 times: another attempt is pending only
\* while fewer than 3 were made, a successful attempt ends the attempts and
\* its text is the response, and the error reaches the caller only after the
\* third failed attempt, with no response.
C12_RetryBounded ==
    \A p \in Calls :
        (calls[p].entry # "none" /\ calls[p].history = <<>>)
        => /\ calls[p].gen_calls <= MaxAttempts
           /\ calls[p].pc = "gr_gen"
              => /\ calls[p].gen_calls < MaxAttempts
                 /\ calls[p].response = NoResponse
           /\ calls[p].error = "generation"
              => /\ calls[p].gen_calls = MaxAttempts
                 /\ calls[p].response = NoResponse
           /\ calls[p].response.kind = "generated"
              => /\ calls[p].pc # "gr_gen"
                 /\ calls[p].response = GeneratedResponse(calls[p].prompt)

\* witness of C12: a call with empty history failed with the generation
\* error after three provider attempts
C12_Witness ==
    \E p \in Calls :
        /\ calls[p].history = <<>>
        /\ calls[p].error = "generation"
        /\ calls[p].gen_calls = MaxAttempts

\* C13: with a non-empty conversation history (generate_with_history) a
\* generation error reaches the caller only after 3 provider attempts.
C13_HistoryPathRetried ==
    \A p \in Calls :
        (calls[p].history # <<>> /\ calls[p].error = "generation")
        => calls[p].gen_calls = MaxAttempts

\* the message of the call has no fast-path match and classify has returned
Classified(c) ==
    /\ c.entry = "process_message"
    /\ PatternMatch(Normalize(c.message)) = NoIntent
    /\ c.pc \notin {"idle", "get_context", "classify", "classify_llm"}
    /\ ~(c.error = "session_store" /\ c.intent = NoIntent)

\* the call went on to retrieval
RagRouted(c) == c.pc = "gr_embed" \/ c.emb_calls >= 1

\* what classify returned for a message with no fast-path match: a member of
\* Intent out of one llm.generate call, equal to the lower-cased answer when
\* that is an Intent value and OTHER otherwise
ClassifiedByLlm(c) ==
    /\ c.intent \in Intents
    /\ c.cls_calls \in 1..MaxAttempts
    /\ c.error # "classification"
    /\ Lower(c.cls_answer) \in Intents => c.intent = Lower(c.cls_answer)
    /\ Lower(c.cls_answer) \notin Intents => c.intent = OTHER_INTENT

\* the call is past get_history (step 3) without a session-store error there
Dispatched(c) ==
    /\ c.pc # "get_history"
    /\ ~(c.error = "session_store" /\ c.response = NoResponse)

WithoutDocument(store, d, t) ==
    SelectSeq(store, LAMBDA e : ~(e.metadata.document_id = d
                                  /\ e.metadata.tenant_id = t))

\* C16: after delete_vectors_by_document(d, t) the store holds exactly the
\* records it held before other than those of document d of tenant t,
\* unchanged and in their order, and a query in namespace t made before any
\* other change of the store returns no match of document d.
C16_DeleteByDocumentFrame ==
    /\ q_result.kind = "delete_by_document"
       => mock_store = WithoutDocument(q_result.before, q_result.document_id,
                                       q_result.tenant_id)
    /\ (/\ q_result.kind = "query"
        /\ q_result.after.kind = "delete_by_document"
        /\ q_result.after.tenant_id = q_result.tenant_id)
       => \A k \in 1..Len(q_result.matches) :
             q_result.matches[k].metadata.document_id
                 # q_result.after.document_id

\* witness of C16: the delete removed a record while a record of the same
\* document under the other tenant stayed, and a query of the tenant followed
C16_Witness ==
    /\ q_result.kind = "query"
    /\ q_result.after.kind = "delete_by_document"
    /\ q_result.after.tenant_id = q_result.tenant_id
    /\ Len(mock_store) < Len(q_result.after.before)
    /\ \E k \in 1..Len(mock_store) :
          /\ mock_store[k].metadata.document_id = q_result.after.document_id
          /\ mock_store[k].metadata.tenant_id # q_result.tenant_id

\* the embedding dimension differs from the one the store's index expects
DimensionMismatch(settings) ==
    /\ settings.vector_db_provider = "pinecone"
    /\ EmbeddingDim(settings.embedding_provider) # PineconeDim

\* C17: with a dimension mismatch between the embedding provider and the
\* store no upsert, query or delete request is where the mismatch error is
\* raised, and none proceeds against the store.
C17_MismatchDetectedEagerly ==
    DimensionMismatch(deployment.settings)
    => \A k \in 1..Len(deployment.log) :
          deployment.log[k].outcome \notin {"mismatch_error", "pinecone"}

\* C18: a process_message call that returned with a conversation_id left the
\* history of the conversation extended by exactly its user message followed
\* by its assistant response; a call without a conversation_id makes no
\* session-store operation and leaves the history as it was.
C18_HistoryExtendedByTwo ==
    \A p \in Calls :
        calls[p].entry = "process_message"
        => /\ (calls[p].outcome = "returned" /\ calls[p].conv # NoConv)
              => LET h == DecodeAll(redis_hist[calls[p].conv])
                     n == Len(h)
                 IN /\ n >= 2
                    /\ h[n - 1] = [role |-> "user",
                                   content |-> [call |-> p,
                                                text |-> calls[p].message]]
                    /\ h[n] = [role |-> "assistant",
                               content |-> [call |-> p,
                                            text |-> calls[p].response]]
                    /\ SubSeq(redis_hist[calls[p].conv], 1, n - 2)
                           \in {<<>>, PriorHistory}
           /\ calls[p].conv = NoConv
              => /\ calls[p].redis_ops = 0
                 /\ redis_hist["c1"] \in {<<>>, PriorHistory}

\* witness of C18: a RAG answer was returned on a conversation with earlier
\* history, which now has four entries
C18_Witness ==
    \E p \in Calls :
        /\ calls[p].outcome = "returned"
        /\ calls[p].conv = "c1"
        /\ calls[p].response.kind = "generated"
        /\ Len(redis_hist["c1"]) = 4

RECURSIVE TotalChars(_, _)
TotalChars(ms, k) == IF k = 0 THEN 0 ELSE Len(ms[k].text) + TotalChars(ms, k - 1)

\* C19: get_context returns the "\n\n"-join of the whole texts of the first
\* k ranked matches, where k is the number of matches before the first one
\* whose text would push the running character total past max_tokens * 4.
C19_ContextIsRankedPrefix ==
    retr.pc = "returned"
    => LET ms == SelectSeq(retr.results, LAMBDA m : m.score >= 0)
           limit == retr.max_tokens * 4
       IN \E k \in 0..Len(ms) :
            /\ retr.context = JoinParts([i \in 1..k |-> ms[i].text])
            /\ TotalChars(ms, k) <= limit
            /\ k < Len(ms) => TotalChars(ms, k) + Len(ms[k + 1].text) > limit

\* witness of C19: the second match does not fit, so the third, which would
\* fit, is left out as well
C19_Witness ==
    /\ retr.pc = "returned"
    /\ retr.max_tokens = 1
    /\ Len(retr.results) = 3
    /\ \A k \in 1..3 : retr.results[k].score = 5
    /\ retr.results[1].text = <<"a">>
    /\ retr.results[2].text = <<"c", "c", "c", "c", "c">>
    /\ retr.results[3].text = <<"a">>
    /\ retr.context = <<"a">>

\* positions of the records of tenant t in the store
NamespaceOf(store, t) ==
    { k \in 1..Len(store) : store[k].metadata.tenant_id = t }

\* C20: query_vectors returns min(top_k, n) distinct records of the tenant's
\* n records with their cosine scores, in non-increasing score order; no
\* record left out scores higher than a returned one; a non-zero record
\* whose vector equals the query vector scores as high as the first match;
\* an empty namespace gives [].
C20_QueryRanked ==
    q_result.kind = "query"
    => LET ms == q_result.matches
           ns == NamespaceOf(mock_store, q_result.tenant_id)
           Score(k) == CosineSimilarity(q_result.vector, mock_store[k].values)
       IN /\ Len(ms) = Min(q_result.top_k, Cardinality(ns))
          /\ ns = {} => ms = <<>>
          /\ \A i \in 1..Len(ms) :
                \E k \in ns : /\ ms[i].id = mock_store[k].id
                              /\ ms[i].score = Score(k)
                              /\ ms[i].metadata = mock_store[k].metadata
          /\ \A i, j \in 1..Len(ms) : i # j => ms[i].id # ms[j].id
          /\ \A i \in 1..(Len(ms) - 1) : ~ScoreGT(ms[i + 1].score, ms[i].score)
          /\ \A k \in ns :
                (\A i \in 1..Len(ms) : ms[i].id # mock_store[k].id)
                => \A i \in 1..Len(ms) : ~ScoreGT(Score(k), ms[i].score)
          /\ \A k \in ns :
                (mock_store[k].values = q_result.vector /\ Len(ms) >= 1
                 /\ Dot(q_result.vector, q_result.vector) # 0)
                => ~ScoreGT(ms[1].score, Score(k))

\* witness of C20: top_k = 1 with two records of the tenant, the one stored
\* second equals the query vector and is the match returned
C20_Witness ==
    /\ q_result.kind = "query"
    /\ q_result.top_k = 1
    /\ Cardinality(NamespaceOf(mock_store, q_result.tenant_id)) = 2
    /\ Len(q_result.matches) = 1
    /\ q_result.matches[1].id = mock_store[2].id
    /\ mock_store[2].values = q_result.vector
    /\ mock_store[1].values # q_result.vector

----------------------------------------------------------------------------
\* the keyword sets a normalized message matches, one test per set
MatchesSet(intent, message) ==
    LET words == WordSet(message)
    IN CASE intent = GREETING ->
              (\E w \in words : <<w>> \in GREETING_PATTERNS)
              \/ message \in GREETING_PATTERNS
         [] intent = HOURS -> words \cap HOURS_PATTERNS # {}
         [] intent = LOCATION ->
              words \cap LocationWords # {} \/ HasFindYou(message)
         [] intent = CONTACT -> words \cap CONTACT_PATTERNS # {}

FastPathOrder == <<GREETING, HOURS, LOCATION, CONTACT>>

MatchedSets(message) ==
    { k \in 1..Len(FastPathOrder) : MatchesSet(FastPathOrder[k], message) }

\* C21: once classify has decided on a message that matches at least one
\* fast-path keyword set, the intent is the first matching one in the order
\* GREETING, HOURS, LOCATION, CONTACT and the classifier LLM was not called.
C21_FastPathPriority ==
    \A p \in Calls :
        LET m == Normalize(calls[p].message)
        IN (/\ calls[p].entry = "process_message"
            /\ calls[p].pc \notin {"idle", "get_context", "classify"}
            /\ calls[p].intent # NoIntent \/ calls[p].pc = "classify_llm"
            /\ MatchedSets(m) # {})
           => /\ calls[p].intent = FastPathOrder[SetMin(MatchedSets(m))]
              /\ calls[p].cls_calls = 0

\* a classified message that matches both the GREETING and the HOURS set
C21_Witness ==
    \E p \in Calls :
        /\ calls[p].message = <<"Hello", "open">>
        /\ calls[p].intent = GREETING
        /\ calls[p].pc = "done"

\* a classified message that matches both the LOCATION and the CONTACT set
C21_WitnessLower ==
    \E p \in Calls :
        /\ calls[p].message = <<"where", "phone">>
        /\ calls[p].intent = LOCATION

\* C22: in every list of chunks that TextChunker.chunk or chunk_text has
\* built, the chunk at list position k (from 0) carries index k.
C22_IndicesSequential ==
    \A k \in 1..Len(chunks) : chunks[k].index = k - 1

\* chunk returned two chunks and skipped a window shorter than min_chunk_size
C22_Witness ==
    /\ cpc = "done"
    /\ Len(chunks) >= 2
    /\ iters > Len(chunks)

\* chunk_text returned two chunks
C22_WitnessChunkText ==
    /\ cpc = "chunk_text_done"
    /\ Len(chunks) >= 2

\* C24: every chunk returned by chunk_with_separators has text of length at
\* most chunk_size.
C24_ChunksWithinSize ==
    cpc \in {"separators_done", "done"}
    => \A k \in 1..Len(chunks) : Len(chunks[k].text) <= cfg.chunk_size

\* C29: every chunk that TextChunker.chunk has appended has a non-empty text.
C29_NoEmptyChunk ==
    \A k \in 1..Len(chunks) : Len(chunks[k].text) >= 1

\* C23: the string returned by get_context, separators included, is at most
\* max_tokens * 4 characters long.
C23_ContextWithinBudget ==
    retr.pc = "returned"
    => Len(retr.context) <= retr.max_tokens * CharsPerToken

\* the records stored under tenant t, in store order: what every
\* query_vectors(v, t) is computed from
RecordsOf(store, t) == SelectSeq(store, LAMBDA e : e.metadata.tenant_id = t)

\* C25: no upsert_vectors(..., y) and no delete_vectors(ids, y) changes the
\* records, and so the query results, of another tenant x.
C25_WritesStayInNamespace ==
    [][\A y \in Tenants :
         ((\E b \in Batches : UpsertVectors(b, y))
          \/ (\E ids \in (SUBSET VecIds) \ {{}} : DeleteVectors(ids, y)))
         => \A x \in Tenants \ {y} :
               RecordsOf(mock_store', x) = RecordsOf(mock_store, x)]_vars

\* C26: whenever generate_with_fallback has invoked the generation provider,
\* the matches its prompt was built from are the matches that passed the
\* relevance check, so at least one of them scores above 0.7.
C26_PromptFromCheckedMatches ==
    \A p \in Calls :
        (calls[p].entry = "generate_with_fallback" /\ calls[p].gen_calls >= 1)
        => /\ calls[p].matches = calls[p].checked[1]
           /\ ~NoneAboveThreshold(calls[p].matches)

\* the call has left the generation step without a generated response
GenerationRaised(c) ==
    /\ c.gen_calls >= 1
    /\ c.pc # "gr_gen"
    /\ c.response.kind # "generated"

\* the conversation's stored history is the history from before the call:
\* the one its step 3 read
HistoryAsRead(c) ==
    /\ redis_hist["c1"] \in {<<>>, PriorHistory}
    /\ c.conv # NoConv => DecodeAll(redis_hist[c.conv]) = c.history

\* C27: when response generation raises inside process_message, in the
\* generation provider or in the retrieval that generate_response runs, the
\* call ends with that error and nothing was appended to the history.
C27_GenerationErrorLeavesHistory ==
    \A p \in Calls :
        calls[p].entry = "process_message"
        => /\ GenerationRaised(calls[p])
              => /\ calls[p].pc = "done"
                 /\ calls[p].outcome = "raised"
                 /\ calls[p].error = "generation"
                 /\ HistoryAsRead(calls[p])
           /\ calls[p].error \in {"embedding", "vector_store"}
              => /\ calls[p].pc = "done"
                 /\ calls[p].outcome = "raised"
                 /\ HistoryAsRead(calls[p])

\* generation failed on a conversation with earlier history
C27_Witness ==
    \E p \in Calls :
        /\ calls[p].entry = "process_message"
        /\ calls[p].conv = "c1"
        /\ calls[p].error = "generation"
        /\ calls[p].outcome = "raised"
        /\ redis_hist["c1"] = PriorHistory

\* C30: get_history(conversation_id, limit) returns the last
\* min(limit, stored length) messages of the conversation in append order,
\* so at most limit messages, and [] for a missing key.
C30_HistoryAtMostLimit ==
    sess_result.kind = "history"
    => LET stored == DecodeAll(redis_hist[sess_result.conv])
       IN /\ Len(sess_result.messages) <= sess_result.limit
          /\ sess_result.messages
                = LastN(stored, Min(sess_result.limit, Len(stored)))

\* C28: whenever the document's status is ready, its chunk_count is at least
\* 1 and equals the number of its committed KnowledgeChunk rows and the
\* number of vectors stored for it.
C28_ReadyCountsAgree ==
    task.status = "ready"
    => /\ task.chunk_count >= 1
       /\ task.chunk_count = task.doc_rows
       /\ task.chunk_count = task.doc_vectors

====
